---- MODULE Spec2Model ----
(***************************************************************************)
(* Model of the discovery-and-broadcast subsystem of reticulum             *)
(* (src/src/networking.rs, src/src/message.rs, src/src/main.rs).           *)
(*                                                                         *)
(* Text is a sequence of one-character strings, so that splitting on the   *)
(* field separator, rejoining and formatting are computed, not assumed.    *)
(* An IPv4 address is a 4-tuple of octets; a transport address is a        *)
(* record [ip, port].                                                      *)
(***************************************************************************)
EXTENDS Naturals, Sequences, FiniteSets, Bags, TLC

VARIABLES
    username,   \* [Nodes -> text]   the username typed at startup (main.rs:38)
    rPeers,     \* [Nodes -> SUBSET address]   Receiver.peers
    bPeers,     \* [Nodes -> SUBSET address]   Broadcaster.peers
    channel,    \* [Nodes -> Seq(Message)]     mpsc handoff channel of the listening Receiver
    queue,      \* [Nodes -> Seq(Message)]     Receiver.message_queue
    net,        \* bag of datagrams in flight
    syncPc,     \* [Nodes -> {"snapshot","merge"}] position of the peer list sync task
    syncSnap,   \* [Nodes -> SUBSET address]   receiver_peers_clone of the running cycle
    syncDone,   \* [Nodes -> Seq(SUBSET address)] history: <<snapshot of the last completed cycle>>
    replied,    \* history: <<prober, responder>> pairs, responder answered prober's announcer
    events,     \* timer ticks, submitted lines and outside datagrams so far
    last,       \* history: what the most recent handler step received, sent and enqueued
    running,    \* [Nodes -> [responder, announcer, listener : BOOLEAN]] the loop has not returned
    held,       \* [Nodes -> Seq([message, src])] message the chat listener waits to hand off
    roundFailed,\* history: [Nodes -> BOOLEAN] a round of the node's announcer returned an error
    accepted,   \* history: [Nodes -> Seq(Message)] Messages the chat listener built, in order
    consumed,   \* history: [Nodes -> Seq(Message)] Messages handed to add_message, in order
    discovery,  \* history: [Nodes -> [probes, responses]] DISCOVER datagrams handled, responses sent
    text,       \* codec: the datagram text under decoding
    msg,        \* codec: <<m>> when text was encoded from Message m, else <<>>
    decoded,    \* codec: the tuple parse_message returned, <<>> before decoding
    pc,         \* tasks: [Tasks -> instruction number], 0 when the task is not running
    holder,     \* tasks: [Mutexes -> task holding the lock, or NoTask]
    submitted,  \* tasks: lines the user has submitted so far
    wire        \* tasks: history: [max, cur] line numbers of the datagrams sent, highest and latest

vars == <<username, rPeers, bPeers, channel, queue, net, syncPc, syncSnap, syncDone,
          replied, events, last, running, held, roundFailed, accepted, consumed, discovery, text, msg,
          decoded,
          pc, holder, submitted, wire>>

netvars == <<username, rPeers, bPeers, channel, queue, net, syncPc, syncSnap, syncDone,
             replied, events, last, running, held, roundFailed, accepted, consumed,
             discovery>>

codecvars == <<text, msg, decoded>>

taskvars == <<pc, holder, submitted, wire>>

----------------------------------------------------------------------------
(* Bounds of the model *)

\* longest raw datagram text drawn for the codec
MaxLen == 5
\* longest name / ip label / content of a Message drawn for the codec
MaxField == 2
\* timer ticks of the announcer and of the peer list sync, submitted lines and
\* outside datagrams, counted together
MaxEvents == 2

----------------------------------------------------------------------------
(* constants.rs *)

CHAT_PORT == 2223
DISCOVERY_PORT == 2224
RECV_BUFFER_SIZE == 8192
BROADCAST_ADDR == <<255, 255, 255, 255>>
TAILSCALE_MULTICAST == <<100, 100, 100, 100>>
MSG_TYPE_DISCOVERY == <<"D", "I", "S", "C", "O", "V", "E", "R">>
MSG_TYPE_DISCOVERY_RESPONSE ==
    <<"D", "I", "S", "C", "O", "V", "E", "R", "_", "R", "E", "S", "P", "O", "N", "S", "E">>
MSG_TYPE_CHAT == <<"C", "H", "A", "T">>
FIELD_SPLITTER == "~"
OUTBOUND_MESSAGE_REPORTED_IP ==
    <<"0", "0", "0", ".", "0", "0", "0", ".", "0", "0", "0", ".", "0", "0", "0">>

\* the literals "Unknown" (parse_message) and "None" (discovery datagrams)
Unknown == <<"U", "n", "k", "n", "o", "w", "n">>
NoneText == <<"N", "o", "n", "e">>

\* capacity of the handoff channel, mpsc::channel(100)
CHANNEL_CAPACITY == 100

----------------------------------------------------------------------------
(* Text helpers: str::split, [..].join, indexing and slicing of a Vec *)

\* the value standing for a panic of an out-of-range index or slice
PANIC == <<"<panic>">>

HasSep(s) == \E i \in 1..Len(s) : s[i] = FIELD_SPLITTER

FirstSep(s) == CHOOSE i \in 1..Len(s) :
                   /\ s[i] = FIELD_SPLITTER
                   /\ \A j \in 1..(i - 1) : s[j] # FIELD_SPLITTER

\* udp_data.split(FIELD_SPLITTER).collect(): k separators give k+1 fields
RECURSIVE Split(_)
Split(s) ==
    IF ~HasSep(s) THEN <<s>>
    ELSE <<SubSeq(s, 1, FirstSep(s) - 1)>> \o Split(SubSeq(s, FirstSep(s) + 1, Len(s)))

\* parts.join(FIELD_SPLITTER)
RECURSIVE Join(_)
Join(parts) ==
    IF Len(parts) = 0 THEN <<>>
    ELSE IF Len(parts) = 1 THEN parts[1]
    ELSE parts[1] \o <<FIELD_SPLITTER>> \o Join(Tail(parts))

\* parts[i] with the zero-based index i of the source
At(parts, i) == IF i + 1 <= Len(parts) THEN parts[i + 1] ELSE PANIC

JoinFrom_OneField(parts, i) == At(parts, i)

\* parts[i..].join(FIELD_SPLITTER) with the zero-based start i of the source
JoinFrom(parts, i) ==
    IF i <= Len(parts) THEN Join(SubSeq(parts, i + 1, Len(parts))) ELSE PANIC

----------------------------------------------------------------------------
(* message.rs *)

Message_new(content, sender_name, sender_ip) ==
    [content |-> content, sender_name |-> sender_name, sender_ip |-> sender_ip]

encode_for_broadcast_ContentFirst(m) ==
    m.content \o <<FIELD_SPLITTER>> \o m.sender_name \o <<FIELD_SPLITTER>> \o m.sender_ip

encode_for_broadcast(m) ==
    m.sender_name \o <<FIELD_SPLITTER>> \o m.sender_ip \o <<FIELD_SPLITTER>> \o m.content

----------------------------------------------------------------------------
(* networking.rs: Receiver::parse_message, returning                      *)
(* <<msg_type, sender name, content, sender ip>>                          *)

parse_message_WireOrder(udp_data) ==
    IF Len(udp_data) = 0 THEN <<<<>>, Unknown, <<>>, Unknown>>
    ELSE LET parts == Split(udp_data) IN
         IF Len(parts) < 2 THEN <<<<>>, Unknown, udp_data, Unknown>>
         ELSE IF Len(parts) < 4
              THEN <<At(parts, 0), Unknown, JoinFrom(parts, 1), Unknown>>
              ELSE <<At(parts, 0), At(parts, 1), At(parts, 2), JoinFrom(parts, 3)>>

parse_message_RejectShort(udp_data) ==
    IF Len(udp_data) = 0 THEN <<<<>>, Unknown, <<>>, Unknown>>
    ELSE LET parts == Split(udp_data) IN
         IF Len(parts) < 4 THEN <<<<>>, Unknown, udp_data, Unknown>>
         ELSE <<At(parts, 0), At(parts, 1), JoinFrom(parts, 3), At(parts, 2)>>

parse_message_StrictFields(udp_data) ==
    IF Len(udp_data) = 0 THEN <<<<>>, Unknown, <<>>, Unknown>>
    ELSE LET parts == Split(udp_data) IN
         IF Len(parts) < 2 THEN <<<<>>, Unknown, udp_data, Unknown>>
         ELSE <<At(parts, 0), At(parts, 1), JoinFrom(parts, 3), At(parts, 2)>>

parse_message(udp_data) ==
    IF Len(udp_data) = 0 THEN <<<<>>, Unknown, <<>>, Unknown>>
    ELSE LET parts == Split(udp_data) IN
         IF Len(parts) < 2 THEN <<<<>>, Unknown, udp_data, Unknown>>
         ELSE IF Len(parts) < 4
              THEN <<At(parts, 0), Unknown, JoinFrom(parts, 1), Unknown>>
              ELSE <<At(parts, 0), At(parts, 1), JoinFrom(parts, 3), At(parts, 2)>>

----------------------------------------------------------------------------
(* The codec on its own: inputs drawn from bounded sets, then encoded and  *)
(* decoded as broadcast_message and parse_message do.                      *)

Alphabet == {FIELD_SPLITTER, "a", "b"}

TextsUpTo(k) == UNION {[1..j -> Alphabet] : j \in 0..k}

CodecMessages ==
    {Message_new(c, n, i) : c \in TextsUpTo(MaxField), n \in TextsUpTo(MaxField),
                            i \in TextsUpTo(MaxField)}

----------------------------------------------------------------------------
(* The environment of the network model *)

Nodes == {"X", "Y"}

\* the node whose user types lines, and the node the outside host sends to
Typing == {"X"}
Exposed == {"Y"}

\* a host that does not run the program and sends arbitrary datagrams
OutsideHost == "Z"

HostIP(h) ==
    CASE h = "X" -> <<192, 168, 1, 10>>
      [] h = "Y" -> <<192, 168, 1, 11>>
      [] OTHER   -> <<192, 168, 1, 12>>

\* ports the operating system hands to a socket bound to port 0
EphemeralPorts == {49152, 49153}

OutsideAddr == [ip |-> HostIP(OutsideHost), port |-> 50000]

\* the usernames typed at startup: the separator is not rejected in a username
Usernames(n) == IF n = "X" THEN {<<"a">>, <<"a", FIELD_SPLITTER>>} ELSE {<<"b">>}

\* one username per node, for the specifications in which the name plays no part
PlainUsernames(n) == IF n = "X" THEN {<<"a">>} ELSE {<<"b">>}

\* lines the user submits: the separator is not escaped, so a line may hold it
Contents == {<<"h", FIELD_SPLITTER, "i">>}

Txt(type, rest) == type \o <<FIELD_SPLITTER>> \o rest

\* datagrams the outside host sends
OutsideData ==
    { <<>>,
      MSG_TYPE_DISCOVERY,
      Txt(MSG_TYPE_DISCOVERY, <<"z", FIELD_SPLITTER>> \o NoneText),
      Txt(MSG_TYPE_DISCOVERY_RESPONSE, <<"z", FIELD_SPLITTER>> \o NoneText),
      Txt(MSG_TYPE_CHAT, <<"z", FIELD_SPLITTER, "1", FIELD_SPLITTER, "h", "i">>),
      Txt(MSG_TYPE_CHAT, <<"z">>) }

NoAddr == [ip |-> <<>>, port |-> 0]

Address(ip, port) == [ip |-> ip, port |-> port]

----------------------------------------------------------------------------
(* std: IpAddr::to_string, HashSet::insert, recv_from into a bounded buffer *)

Digit(d) == <<"0", "1", "2", "3", "4", "5", "6", "7", "8", "9">>[d + 1]

RECURSIVE Decimal(_)
Decimal(n) == IF n < 10 THEN <<Digit(n)>> ELSE Decimal(n \div 10) \o <<Digit(n % 10)>>

IpToString(ip) ==
    Decimal(ip[1]) \o <<".">> \o Decimal(ip[2]) \o <<".">> \o Decimal(ip[3])
        \o <<".">> \o Decimal(ip[4])

HashSet_insert_ByIp(set, addr) ==
    IF \E a \in set : a.ip = addr.ip
    THEN [set |-> set, is_new |-> FALSE]
    ELSE [set |-> set \cup {addr}, is_new |-> TRUE]

HashSet_insert_Replace(set, addr) ==
    [set |-> {addr}, is_new |-> addr \notin set]

HashSet_insert_SkipLocal(set, addr) ==
    IF \E n \in Nodes : n \in Typing /\ addr.ip = HostIP(n)
    THEN [set |-> set, is_new |-> FALSE]
    ELSE [set |-> set \cup {addr}, is_new |-> addr \notin set]

\* peers.insert(src): the set afterwards and the returned bool
HashSet_insert(set, addr) ==
    [set |-> set \cup {addr}, is_new |-> addr \notin set]

\* String::from_utf8_lossy(&buf[..size]) after recv_from into RECV_BUFFER_SIZE bytes
Received(data) ==
    IF Len(data) <= RECV_BUFFER_SIZE THEN data ELSE SubSeq(data, 1, RECV_BUFFER_SIZE)

----------------------------------------------------------------------------
(* The datagram network *)

\* the ports a node has a listening socket on
BoundPorts == {CHAT_PORT, DISCOVERY_PORT}

\* the datagrams one send_to puts in flight: a broadcast reaches every node's
\* socket on that port, a unicast the node that has the address; a datagram for
\* an address of no node, or for a port no socket of the node is bound to (the
\* ephemeral port of a socket that was dropped after its sends), reaches nobody
Emit(src, dst, data) ==
    IF dst.port \notin BoundPorts THEN {}
    ELSE IF dst.ip = BROADCAST_ADDR
    THEN {[src |-> src, dst |-> dst, host |-> h, data |-> data] : h \in Nodes}
    ELSE {[src |-> src, dst |-> dst, host |-> h, data |-> data] :
             h \in {n \in Nodes : HostIP(n) = dst.ip}}

InFlight == BagToSet(net)

Take(p) == net (-) SetToBag({p})

----------------------------------------------------------------------------
(* Datagrams and messages the program builds *)

\* discover_peers: DISCOVER~{username}~None
DiscoveryProbe(u) ==
    MSG_TYPE_DISCOVERY \o <<FIELD_SPLITTER>> \o u \o <<FIELD_SPLITTER>> \o NoneText

\* handle_discovery: DISCOVER_RESPONSE~{username}~None
DiscoveryResponse(u) ==
    MSG_TYPE_DISCOVERY_RESPONSE \o <<FIELD_SPLITTER>> \o u \o <<FIELD_SPLITTER>> \o NoneText

ChatDatagram_NoType(m) == encode_for_broadcast(m)

\* broadcast_message: the chat datagram put on the wire
ChatDatagram(m) == MSG_TYPE_CHAT \o <<FIELD_SPLITTER>> \o encode_for_broadcast(m)

ResponseTarget_DiscoveryPort(src) == Address(src.ip, DISCOVERY_PORT)

\* handle_discovery: socket.send_to(response, src)
ResponseTarget(src) == src

chat_message_TrustPayload(data, src) ==
    LET parsed == parse_message(data)
    IN  Message_new(parsed[3], parsed[2], parsed[4])

\* listen_for_messages: the Message built from a chat datagram and its source
chat_message(data, src) ==
    LET parsed == parse_message(data)
    IN  Message_new(parsed[3], parsed[2], IpToString(src.ip))

IsChat_Any(msg_type) == TRUE

IsChat_AnyKnownType(msg_type) ==
    msg_type \in {MSG_TYPE_CHAT, MSG_TYPE_DISCOVERY, MSG_TYPE_DISCOVERY_RESPONSE}

\* listen_for_messages: msg_type != MSG_TYPE_CHAT skips the datagram
IsChat(msg_type) == msg_type = MSG_TYPE_CHAT

\* continuous_broadcast_task: the Message handed to broadcast_message
OutboundMessage(input, u) == Message_new(input, u, OUTBOUND_MESSAGE_REPORTED_IP)

merge_IntoCopy(broadcaster_peers, receiver_peers_clone) == broadcaster_peers

merge_FirstCycleOnly(broadcaster_peers, receiver_peers_clone) ==
    IF broadcaster_peers = {} THEN receiver_peers_clone ELSE broadcaster_peers

merge_AsTargets(broadcaster_peers, receiver_peers_clone) ==
    broadcaster_peers \cup {Address(p.ip, CHAT_PORT) : p \in receiver_peers_clone}

\* peer list sync: insert every peer of the snapshot into the broadcaster's set
merge(broadcaster_peers, receiver_peers_clone) ==
    broadcaster_peers \cup receiver_peers_clone

----------------------------------------------------------------------------
(* History of the most recent handler step *)

NoPre == [rPeers |-> {}, channel |-> <<>>, queue |-> <<>>, net |-> EmptyBag, held |-> <<>>]

\* sent: the sends of a responder step, in order; attempts: the send_to calls of
\* a broadcast to explicit targets; sweep: the loop over 100.a.b.2 ran; snap: the
\* snapshot of the peer set a broadcast took
NoLast ==
    [op |-> "none", node |-> "", src |-> NoAddr, data |-> <<>>, sent |-> <<>>,
     enq |-> <<>>, ins |-> <<>>, ret |-> "ok", pre |-> NoPre,
     attempts |-> {}, sweep |-> FALSE, snap |-> <<>>, sends |-> {}]

Pre(n) ==
    [rPeers |-> rPeers[n], channel |-> channel[n], queue |-> queue[n], net |-> net,
     held |-> held[n]]

----------------------------------------------------------------------------
(* Initial state: main.rs:43-48, Receiver::new, Broadcaster::new *)

InitNet ==
    /\ username \in {u \in [Nodes -> UNION {PlainUsernames(n) : n \in Nodes}] :
                       \A n \in Nodes : u[n] \in PlainUsernames(n)}
    /\ rPeers = [n \in Nodes |-> {}]
    /\ bPeers = [n \in Nodes |-> {}]
    /\ channel = [n \in Nodes |-> <<>>]
    /\ queue = [n \in Nodes |-> <<>>]
    /\ net = EmptyBag
    /\ syncPc = [n \in Nodes |-> "snapshot"]
    /\ syncSnap = [n \in Nodes |-> {}]
    /\ syncDone = [n \in Nodes |-> <<>>]
    /\ replied = {}
    /\ events = 0
    /\ last = NoLast
    /\ running = [n \in Nodes |-> [responder |-> TRUE, announcer |-> TRUE, listener |-> TRUE]]
    /\ held = [n \in Nodes |-> <<>>]
    /\ roundFailed = [n \in Nodes |-> FALSE]
    /\ accepted = [n \in Nodes |-> <<>>]
    /\ consumed = [n \in Nodes |-> <<>>]
    /\ discovery = [n \in Nodes |-> [probes |-> 0, responses |-> 0]]

----------------------------------------------------------------------------
(* The tasks of one node, instruction by instruction. A program is the     *)
(* loop of a task as a table of instructions: "lock" and "unlock" of a     *)
(* std::sync::Mutex, "await" (a suspension point: socket send or receive,  *)
(* channel operation, sleep, or waiting for a called future), "op" (code   *)
(* that runs without suspending), "submit" (a line was read and            *)
(* broadcast_message is called for it), "exit" (std::process::exit). next  *)
(* is the set of instructions that can follow; 0 means the task does not   *)
(* run. An in-memory operation on a locked structure is part of the unlock *)
(* step that ends its scope.                                               *)

RECEIVER_PEERS == "receiver.peers"
BROADCASTER_PEERS == "broadcaster.peers"
MESSAGE_QUEUE == "message_queue"
\* the Arc<Mutex<Receiver>> of the user interface
RECEIVER == "receiver"
Mutexes == {RECEIVER_PEERS, BROADCASTER_PEERS, MESSAGE_QUEUE, RECEIVER}

Ins(kind, m, next) == [kind |-> kind, m |-> m, next |-> next]

\* Receiver::listen_for_discovery with handle_discovery inlined
listen_for_discovery_program ==
    << Ins("await", "recv_from", {0, 1, 2, 5}),      \* 344; 0: the error returns, 1: other type
       Ins("await", "send_to", {1, 3}),              \* 278, DISCOVER arm; 1: the error returns
       Ins("lock", RECEIVER_PEERS, {4}),             \* 281
       Ins("unlock", RECEIVER_PEERS, {1}),           \* 282-292
       Ins("lock", RECEIVER_PEERS, {6}),             \* 295, DISCOVER_RESPONSE arm
       Ins("unlock", RECEIVER_PEERS, {1}) >>         \* 296-305

\* the loop of Receiver::listen_for_messages
listen_for_messages_program ==
    << Ins("await", "recv_from", {0, 1, 2}),         \* 393; 1: not a chat message (400)
       Ins("await", "message_sender.send", {3}),     \* 409
       Ins("lock", RECEIVER_PEERS, {4}),             \* 414
       Ins("unlock", RECEIVER_PEERS, {1}) >>         \* 414, end of the statement

\* the task spawned by listen_for_messages that fills the message queue
pump_program ==
    << Ins("await", "rx.recv", {2}),                 \* 385
       Ins("lock", MESSAGE_QUEUE, {3}),              \* 386
       Ins("unlock", MESSAGE_QUEUE, {1}) >>          \* 387-388

\* Broadcaster::discovery_service with discover_peers inlined
discovery_service_program ==
    << Ins("op", "Socket::new", {2, 4}),             \* 56-65; 4: the error is logged
       Ins("await", "send_to", {3}),                 \* 79-81
       Ins("await", "send_to", {4}),                 \* 86-88
       Ins("await", "sleep", {1}) >>                 \* 103

\* the peer list sync task with its lock of the broadcaster's peers kept over the sleep
peer_sync_program_SleepLocked ==
    << Ins("lock", RECEIVER, {2}),
       Ins("unlock", RECEIVER, {3}),
       Ins("lock", RECEIVER_PEERS, {4}),
       Ins("unlock", RECEIVER_PEERS, {5}),
       Ins("lock", BROADCASTER_PEERS, {6}),
       Ins("await", "sleep", {7}),
       Ins("unlock", BROADCASTER_PEERS, {1}) >>

\* the peer list sync task merging under the lock of the receiver's peers
peer_sync_program_MergeUnderReceiverLock ==
    << Ins("lock", RECEIVER, {2}),
       Ins("unlock", RECEIVER, {3}),
       Ins("lock", RECEIVER_PEERS, {4}),
       Ins("lock", BROADCASTER_PEERS, {5}),
       Ins("unlock", BROADCASTER_PEERS, {6}),
       Ins("unlock", RECEIVER_PEERS, {7}),
       Ins("await", "sleep", {1}) >>

\* the peer list sync task of main
peer_sync_program ==
    << Ins("lock", RECEIVER, {2}),                   \* main.rs:100
       Ins("unlock", RECEIVER, {3}),                 \* main.rs:101-102, get_peers returned
       Ins("lock", RECEIVER_PEERS, {4}),             \* main.rs:108
       Ins("unlock", RECEIVER_PEERS, {5}),           \* main.rs:108, the clone is taken
       Ins("lock", BROADCASTER_PEERS, {6}),          \* main.rs:111
       Ins("unlock", BROADCASTER_PEERS, {7}),        \* main.rs:112-115
       Ins("await", "sleep", {1}) >>                 \* main.rs:117

\* continuous_receive_task of main with Receiver::get_queue_message inlined
continuous_receive_program ==
    << Ins("lock", RECEIVER, {2}),                   \* main.rs:179
       Ins("lock", MESSAGE_QUEUE, {3}),              \* 419
       Ins("unlock", MESSAGE_QUEUE, {4}),            \* 420-421
       Ins("unlock", RECEIVER, {5}),                 \* main.rs:181
       Ins("await", "sleep", {1}) >>                 \* main.rs:193

\* the input loop starting every broadcast as a task of its own and reading on
continuous_broadcast_program_Spawned ==
    << Ins("op", "read_input", {2, 4}),
       Ins("submit", "broadcast_message", {1}),
       Ins("await", "broadcast_message", {1}),
       Ins("exit", "process::exit", {0}) >>

\* continuous_broadcast_task of main
continuous_broadcast_program ==
    << Ins("op", "read_input", {2, 4}),              \* main.rs:212-227; 2: input_complete,
                                                     \* 4: should_exit
       Ins("submit", "broadcast_message", {3}),      \* main.rs:229-255, the call is made
       Ins("await", "broadcast_message", {1}),       \* main.rs:255, the call has returned
       Ins("exit", "process::exit", {0}) >>          \* main.rs:220-222, or 160-164 when
                                                     \* restore_terminal fails

\* Broadcaster::broadcast_message, one call
broadcast_message_program ==
    << Ins("op", "Socket::new", {0, 2}),             \* 109-118; 0: the error returns
       Ins("lock", BROADCASTER_PEERS, {3}),          \* 128
       Ins("unlock", BROADCASTER_PEERS, {4, 5}),     \* 128, the clone is taken; 5: no peers
       Ins("await", "send_to", {4, 5}),              \* 133-145, one peer after the other
       Ins("await", "send_to", {6}),                 \* 151-153
       Ins("await", "send_to", {0, 6}) >>            \* 160-172, then Ok(()) at 178

\* a task is <<name, k>>: k is 0 for the loops of the node and the number of
\* the submitted line for a call of broadcast_message
LoopNames == {"listen_for_discovery", "listen_for_messages", "pump", "discovery_service",
              "peer_sync", "continuous_receive_task", "continuous_broadcast_task"}
Loops == {<<name, 0>> : name \in LoopNames}
Calls == {<<"broadcast_message", k>> : k \in 1..MaxEvents}
Tasks == Loops \cup Calls
NoTask == <<"", 0>>

Program(t) ==
    CASE t[1] = "listen_for_discovery" -> listen_for_discovery_program
      [] t[1] = "listen_for_messages" -> listen_for_messages_program
      [] t[1] = "pump" -> pump_program
      [] t[1] = "discovery_service" -> discovery_service_program
      [] t[1] = "peer_sync" -> peer_sync_program
      [] t[1] = "continuous_receive_task" -> continuous_receive_program
      [] t[1] = "continuous_broadcast_task" -> continuous_broadcast_program
      [] t[1] = "broadcast_message" -> broadcast_message_program

\* the instruction a running task is at
Instruction(t) == Program(t)[pc[t]]

\* the task is suspended at a suspension point
Suspended(t) == pc[t] # 0 /\ Instruction(t).kind = "await"

LocksHeld(t) == {m \in Mutexes : holder[m] = t}

\* the loops start with main; a call starts when its line is submitted
InitTasks ==
    /\ pc = [t \in Tasks |-> IF t \in Loops THEN 1 ELSE 0]
    /\ holder = [m \in Mutexes |-> NoTask]
    /\ submitted = 0
    /\ wire = [max |-> 0, cur |-> 0]

process_exit_ReturnOnly(pcs, t) == [pcs EXCEPT ![t] = 0]

\* std::process::exit: the process ends, with it every task
process_exit(pcs, t) == [x \in Tasks |-> 0]

\* the datagram a call of broadcast_message sends at a send_to
Sent(t) ==
    IF t \in Calls /\ Instruction(t).m = "send_to"
    THEN [max |-> IF t[2] > wire.max THEN t[2] ELSE wire.max, cur |-> t[2]]
    ELSE wire

\* task t executes the instruction it is at
task_step(t) ==
    /\ pc[t] # 0
    /\ LET ins == Instruction(t) IN
       \/ /\ ins.kind = "lock"
          /\ holder[ins.m] = NoTask
          /\ holder' = [holder EXCEPT ![ins.m] = t]
          /\ \E nx \in ins.next : pc' = [pc EXCEPT ![t] = nx]
          /\ UNCHANGED <<submitted, wire>>
       \/ /\ ins.kind = "unlock"
          /\ holder' = [holder EXCEPT ![ins.m] = NoTask]
          /\ \E nx \in ins.next : pc' = [pc EXCEPT ![t] = nx]
          /\ UNCHANGED <<submitted, wire>>
       \/ /\ ins.kind = "op"
          /\ \E nx \in ins.next : pc' = [pc EXCEPT ![t] = nx]
          /\ UNCHANGED <<holder, submitted, wire>>
       \/ /\ ins.kind = "await"
          /\ ins.m = "broadcast_message" => pc[<<"broadcast_message", submitted>>] = 0
          /\ wire' = Sent(t)
          /\ \E nx \in ins.next : pc' = [pc EXCEPT ![t] = nx]
          /\ UNCHANGED <<holder, submitted>>
       \/ /\ ins.kind = "exit"
          /\ pc' = process_exit(pc, t)
          /\ UNCHANGED <<holder, submitted, wire>>
       \/ /\ ins.kind = "submit"
          /\ submitted < MaxEvents
          /\ submitted' = submitted + 1
          /\ \E nx \in ins.next :
                pc' = [pc EXCEPT ![t] = nx, ![<<"broadcast_message", submitted + 1>>] = 1]
          /\ UNCHANGED <<holder, wire>>

Init ==
    /\ InitNet
    /\ InitTasks
    /\ text = <<>>
    /\ msg = <<>>
    /\ decoded = <<>>

----------------------------------------------------------------------------
(* Broadcaster::discover_peers, one round of discovery_service *)

\* the targets of the two probes of a round
discover_targets(discovery_port) ==
    {Address(BROADCAST_ADDR, discovery_port), Address(TAILSCALE_MULTICAST, discovery_port)}

\* discovery_service: whether the loop goes on after a round returned ret
discovery_service_continues_OnSuccess(ret) == ret = "ok"

discovery_service_continues(ret) == TRUE

discover_peers(n) ==
    /\ running[n].announcer
    /\ events < MaxEvents
    /\ events' = events + 1
    /\ \E port \in EphemeralPorts, socket_ok \in BOOLEAN,
          failed \in SUBSET discover_targets(DISCOVERY_PORT) :
          LET src == Address(HostIP(n), port)
              discovery_msg == DiscoveryProbe(username[n])
              attempts == {[dst |-> t, ok |-> t \notin failed] :
                              t \in discover_targets(DISCOVERY_PORT)}
              \* the send to TAILSCALE_MULTICAST reaches no node of the model
              out == UNION {Emit(src, a.dst, discovery_msg) : a \in {x \in attempts : x.ok}}
              round == [NoLast EXCEPT !.op = "discover_peers", !.node = n, !.src = src,
                                      !.data = discovery_msg, !.pre = Pre(n)]
              ret == IF socket_ok THEN "ok" ELSE "err"
          IN  /\ IF socket_ok
                 THEN /\ net' = net (+) SetToBag(out)
                      /\ last' = [round EXCEPT !.attempts = attempts]
                 ELSE \* Socket::new, bind or from_std failed: the round returns the error
                      /\ net' = net
                      /\ last' = [round EXCEPT !.ret = "err"]
              /\ running' = [running EXCEPT ![n].announcer = discovery_service_continues(ret)]
              /\ roundFailed' = [roundFailed EXCEPT ![n] = @ \/ ~socket_ok]
    /\ UNCHANGED <<accepted, consumed, discovery, username, held, rPeers, bPeers, channel, queue, syncPc, syncSnap,
                   syncDone, replied>>

(* Receiver::listen_for_discovery: the receive loop around handle_discovery *)

\* whether the loop goes on after recv_from returned (ok) or failed
listen_for_discovery_continues_after_recv(ok) == ok

listen_for_discovery_continues_after_handle_OnSuccess(ret) == ret = "ok"

\* whether the loop goes on after handle_discovery returned ret
listen_for_discovery_continues_after_handle(ret) == TRUE

\* recv_from on the discovery socket fails
listen_for_discovery_recv_error(n) ==
    /\ running[n].responder
    /\ events < MaxEvents
    /\ events' = events + 1
    /\ running' = [running EXCEPT
                      ![n].responder = listen_for_discovery_continues_after_recv(FALSE)]
    /\ last' = [NoLast EXCEPT !.op = "listen_for_discovery", !.node = n, !.ret = "err",
                              !.pre = Pre(n)]
    /\ UNCHANGED <<accepted, consumed, discovery, username, held, roundFailed, rPeers, bPeers, channel, queue, net, syncPc, syncSnap,
                   syncDone, replied>>

(* Receiver::handle_discovery on one datagram received by listen_for_discovery *)

\* the arms of match msg_type: whether a response is sent, whether src is inserted
match_msg_type_AnswerResponses(msg_type) ==
    IF msg_type \in {MSG_TYPE_DISCOVERY, MSG_TYPE_DISCOVERY_RESPONSE}
    THEN [reply |-> TRUE, insert |-> TRUE]
    ELSE [reply |-> FALSE, insert |-> FALSE]

match_msg_type_LearnAny(msg_type) ==
    IF msg_type = MSG_TYPE_DISCOVERY THEN [reply |-> TRUE, insert |-> TRUE]
    ELSE [reply |-> FALSE, insert |-> TRUE]

match_msg_type_ReplyAlways(msg_type) ==
    [reply |-> TRUE,
     insert |-> msg_type \in {MSG_TYPE_DISCOVERY, MSG_TYPE_DISCOVERY_RESPONSE}]

match_msg_type(msg_type) ==
    IF msg_type = MSG_TYPE_DISCOVERY THEN [reply |-> TRUE, insert |-> TRUE]
    ELSE IF msg_type = MSG_TYPE_DISCOVERY_RESPONSE THEN [reply |-> FALSE, insert |-> TRUE]
    ELSE [reply |-> FALSE, insert |-> FALSE]

handle_discovery(n, p) ==
    /\ running[n].responder
    /\ p \in InFlight
    /\ p.host = n
    /\ p.dst.port = DISCOVERY_PORT
    /\ LET data == Received(p.data)
           src == p.src
           msg_type == parse_message(data)[1]
           arm == match_msg_type(msg_type)
           response == DiscoveryResponse(username[n])
           target == ResponseTarget(src)
           ins == HashSet_insert(rPeers[n], src)
           step == [NoLast EXCEPT !.op = "handle_discovery", !.node = n, !.src = src,
                                  !.data = data, !.pre = Pre(n)]
       IN  \E ok \in IF arm.reply THEN BOOLEAN ELSE {TRUE} :
             LET tx == IF arm.reply
                       THEN <<[dst |-> target, data |-> response, ok |-> ok]>>
                       ELSE <<>>
                 \* send_to(...).await? returns the error before the insert
                 inserted == arm.insert /\ ok
                 ret == IF ok THEN "ok" ELSE "err"
             IN  /\ net' = IF arm.reply /\ ok
                            THEN Take(p) (+) SetToBag(Emit(Address(HostIP(n), DISCOVERY_PORT),
                                                           target, response))
                            ELSE Take(p)
                 /\ rPeers' = IF inserted THEN [rPeers EXCEPT ![n] = ins.set] ELSE rPeers
                 /\ replied' = IF arm.reply /\ ok
                                THEN replied \cup
                                       {<<x, n>> : x \in {y \in Nodes : HostIP(y) = src.ip}}
                                ELSE replied
                 /\ last' = [step EXCEPT
                                !.sent = tx,
                                !.ins = IF inserted
                                        THEN <<[addr |-> src, is_new |-> ins.is_new]>>
                                        ELSE <<>>,
                                !.ret = ret]
                 /\ running' = [running EXCEPT
                       ![n].responder = listen_for_discovery_continues_after_handle(ret)]
                 /\ discovery' = [discovery EXCEPT
                       ![n].probes = IF msg_type = MSG_TYPE_DISCOVERY THEN @ + 1 ELSE @,
                       ![n].responses = IF arm.reply /\ ok THEN @ + 1 ELSE @]
    /\ UNCHANGED <<accepted, consumed, username, held, roundFailed, bPeers, channel, queue, syncPc, syncSnap, syncDone, events>>

(* Receiver::listen_for_messages, one iteration of the receive loop *)

\* message_sender.send(message).await on the bounded channel: the message is
\* handed over when there is capacity, else the send stays pending
mpsc_send_TrySend(chan, message) ==
    IF Len(chan) < CHANNEL_CAPACITY
    THEN [channel |-> Append(chan, message), result |-> "sent"]
    ELSE [channel |-> chan, result |-> "err"]

mpsc_send(chan, message) ==
    IF Len(chan) < CHANNEL_CAPACITY
    THEN [channel |-> Append(chan, message), result |-> "sent"]
    ELSE [channel |-> chan, result |-> "pending"]

\* whether the loop goes on after recv_from returned (ok) or failed
listen_for_messages_continues_after_recv(ok) == ok

\* recv_from on the chat socket fails
listen_for_messages_recv_error(n) ==
    /\ running[n].listener
    /\ held[n] = <<>>
    /\ events < MaxEvents
    /\ events' = events + 1
    /\ running' = [running EXCEPT
                      ![n].listener = listen_for_messages_continues_after_recv(FALSE)]
    /\ last' = [NoLast EXCEPT !.op = "listen_for_messages_recv", !.node = n, !.ret = "err",
                              !.pre = Pre(n)]
    /\ UNCHANGED <<accepted, consumed, discovery, username, held, roundFailed, rPeers, bPeers, channel,
                   queue, net, syncPc, syncSnap, syncDone, replied>>

peers_at_pending_send_Inserted(peers, src) == peers \cup {src}

\* the peer set while the send of the Message is pending: peers.insert(src)
\* comes after the send has returned
peers_at_pending_send(peers, src) == peers

listen_for_messages(n, p) ==
    /\ running[n].listener
    /\ held[n] = <<>>
    /\ p \in InFlight
    /\ p.host = n
    /\ p.dst.port = CHAT_PORT
    /\ LET data == Received(p.data)
           src == p.src
           msg_type == parse_message(data)[1]
           message == chat_message(data, src)
           tx == mpsc_send(channel[n], message)
           ins == HashSet_insert(rPeers[n], src)
           step == [NoLast EXCEPT !.op = "listen_for_messages", !.node = n, !.src = src,
                                  !.data = data, !.pre = Pre(n)]
       IN  /\ net' = Take(p)
           /\ IF ~IsChat(msg_type)
              THEN /\ last' = step
                   /\ UNCHANGED <<rPeers, channel, held, accepted>>
              ELSE IF tx.result = "pending"
              THEN \* the listener is suspended at the send, holding the message
                   /\ held' = [held EXCEPT ![n] = <<[message |-> message, src |-> src,
                                                     data |-> data]>>]
                   /\ accepted' = [accepted EXCEPT ![n] = Append(@, message)]
                   /\ rPeers' = [rPeers EXCEPT ![n] = peers_at_pending_send(@, src)]
                   /\ last' = [step EXCEPT !.ret = "pending"]
                   /\ UNCHANGED channel
              ELSE \* sent, or Err(e): the failure is logged; then the peer is inserted
                   /\ channel' = [channel EXCEPT ![n] = tx.channel]
                   /\ rPeers' = [rPeers EXCEPT ![n] = ins.set]
                   /\ last' = [step EXCEPT
                                  !.enq = IF tx.result = "sent" THEN <<message>> ELSE <<>>,
                                  !.ins = <<[addr |-> src, is_new |-> ins.is_new]>>,
                                  !.ret = IF tx.result = "sent" THEN "ok" ELSE "dropped"]
                   /\ accepted' = [accepted EXCEPT ![n] = Append(@, message)]
                   /\ UNCHANGED held
    /\ UNCHANGED <<consumed, discovery, username, running, roundFailed, bPeers, queue, syncPc, syncSnap, syncDone,
                   replied, events>>

\* the pending send completes once the pump has freed capacity; the loop goes on
\* with the insert of the peer
message_sender_send_completes(n) ==
    /\ running[n].listener
    /\ held[n] # <<>>
    /\ LET h == held[n][1]
           tx == mpsc_send(channel[n], h.message)
           ins == HashSet_insert(rPeers[n], h.src)
       IN  /\ tx.result = "sent"
           /\ channel' = [channel EXCEPT ![n] = tx.channel]
           /\ rPeers' = [rPeers EXCEPT ![n] = ins.set]
           /\ held' = [held EXCEPT ![n] = <<>>]
           /\ last' = [NoLast EXCEPT !.op = "listen_for_messages", !.node = n,
                                     !.src = h.src, !.data = h.data, !.pre = Pre(n),
                                     !.enq = <<h.message>>,
                                     !.ins = <<[addr |-> h.src, is_new |-> ins.is_new]>>]
    /\ UNCHANGED <<accepted, consumed, discovery, username, running, roundFailed, bPeers, queue, net, syncPc, syncSnap,
                   syncDone, replied, events>>

(* the task listen_for_messages spawns: channel -> message_queue *)

\* rx.recv().await: the oldest message of the channel
rx_recv(chan) == [message |-> Head(chan), channel |-> Tail(chan)]

VecDeque_push_back_Front(q, message) == <<message>> \o q

\* queue.push_back(message)
VecDeque_push_back(q, message) == Append(q, message)

pump(n) ==
    /\ channel[n] # <<>>
    /\ LET rx == rx_recv(channel[n])
       IN  /\ queue' = [queue EXCEPT ![n] = VecDeque_push_back(@, rx.message)]
           /\ channel' = [channel EXCEPT ![n] = rx.channel]
    /\ last' = NoLast
    /\ UNCHANGED <<accepted, consumed, discovery, username, running, held, roundFailed, rPeers, bPeers, net, syncPc, syncSnap, syncDone, replied,
                   events>>

(* continuous_receive_task: get_queue_message, then add_message *)

VecDeque_pop_front_OwnQueue(q) == [message |-> <<>>, queue |-> q]

VecDeque_pop_front_Peek(q) ==
    IF q = <<>> THEN [message |-> <<>>, queue |-> q]
    ELSE [message |-> <<Head(q)>>, queue |-> q]

\* queue.pop_front(): Some(message) as <<message>>, None as <<>>
VecDeque_pop_front(q) ==
    IF q = <<>> THEN [message |-> <<>>, queue |-> q]
    ELSE [message |-> <<Head(q)>>, queue |-> Tail(q)]

\* an iteration that gets None changes nothing and is left out
continuous_receive_task(n) ==
    /\ LET popped == VecDeque_pop_front(queue[n])
       IN  /\ popped.message # <<>>
           /\ queue' = [queue EXCEPT ![n] = popped.queue]
           \* engine.add_message(&message)
           /\ consumed' = [consumed EXCEPT ![n] = Append(@, popped.message[1])]
    /\ last' = NoLast
    /\ UNCHANGED <<accepted, discovery, username, running, held, roundFailed, rPeers, bPeers, channel, net, syncPc, syncSnap, syncDone,
                   replied, events>>

(* Broadcaster::broadcast_message, called by continuous_broadcast_task *)

\* 100.{64..127}.{0..254}.2, the addresses of the brute-force loop
InTailscaleRange(ip) ==
    /\ ip[1] = 100
    /\ ip[2] \in 64..127
    /\ ip[3] \in 0..254
    /\ ip[4] = 2

\* the target of the unicast to one peer: the peer's IP and the configured chat port
UnicastTarget_RecordedPort(peer_addr, chat_port) == peer_addr

UnicastTarget(peer_addr, chat_port) == Address(peer_addr.ip, chat_port)

\* the fallback target every call sends to after the peers: the subnet
\* broadcast address on the chat port
fallback_targets_OnlyWhenAlone(peers, chat_port) ==
    IF peers = {} THEN {Address(BROADCAST_ADDR, chat_port)} ELSE {}

fallback_targets(peers, chat_port) == {Address(BROADCAST_ADDR, chat_port)}

UnicastBag_PerTarget(src, peers, chat_port, data) ==
    SetToBag(UNION {Emit(src, UnicastTarget(peer, chat_port), data) : peer \in peers})

\* the datagrams the successful sends to the peers put in flight, one send per peer
UnicastBag(src, peers, chat_port, data) ==
    LET to(peer) == Emit(src, UnicastTarget(peer, chat_port), data)
        all == UNION {to(peer) : peer \in peers}
    IN  [q \in all |-> Cardinality({peer \in peers : q \in to(peer)})]

broadcast_message(n, input) ==
    /\ events < MaxEvents
    /\ events' = events + 1
    /\ \E port \in EphemeralPorts, socket_ok \in BOOLEAN, failed \in SUBSET bPeers[n],
          broadcast_ok \in BOOLEAN :
          LET src == Address(HostIP(n), port)
              message == OutboundMessage(input, username[n])
              encoded_message == ChatDatagram(message)
              peers == bPeers[n]
              unicast == UnicastBag(src, peers \ failed, CHAT_PORT, encoded_message)
              fallback == IF broadcast_ok
                          THEN UNION {Emit(src, t, encoded_message) :
                                         t \in fallback_targets(peers, CHAT_PORT)}
                          ELSE {}
              \* the loop over 100.{64..127}.{0..254}.2; its send errors are counted only
              tailscale == {[src |-> src, dst |-> Address(HostIP(h), CHAT_PORT), host |-> h,
                             data |-> encoded_message] :
                               h \in {x \in Nodes : InTailscaleRange(HostIP(x))}}
              attempts ==
                  {[dst |-> UnicastTarget(p, CHAT_PORT), ok |-> p \notin failed] : p \in peers}
                  \cup {[dst |-> t, ok |-> broadcast_ok] :
                           t \in fallback_targets(peers, CHAT_PORT)}
              \* the send_to of each turn of the loop over the snapshot and its outcome
              sends == {[peer |-> p, ok |-> p \notin failed] : p \in peers}
              call == [NoLast EXCEPT !.op = "broadcast_message", !.node = n, !.src = src,
                                     !.data = encoded_message, !.pre = Pre(n)]
          IN  IF socket_ok
              THEN /\ net' = net (+) unicast (+) SetToBag(fallback) (+) SetToBag(tailscale)
                   /\ last' = [call EXCEPT !.attempts = attempts, !.sweep = TRUE,
                                           !.snap = <<peers>>, !.sends = sends]
              ELSE \* Socket::new, bind or from_std failed: the call returns the error
                   /\ net' = net
                   /\ last' = [call EXCEPT !.ret = "err"]
    /\ UNCHANGED <<accepted, consumed, discovery, username, running, held, roundFailed, rPeers, bPeers, channel, queue, syncPc, syncSnap,
                   syncDone, replied>>

(* main.rs: the peer list sync task, one cycle in two locked sections *)

sync_snapshot(n) ==
    /\ syncPc[n] = "snapshot"
    /\ events < MaxEvents
    /\ events' = events + 1
    /\ syncSnap' = [syncSnap EXCEPT ![n] = rPeers[n]]
    /\ syncPc' = [syncPc EXCEPT ![n] = "merge"]
    /\ last' = NoLast
    /\ UNCHANGED <<accepted, consumed, discovery, username, running, held, roundFailed, rPeers, bPeers, channel, queue, net, syncDone, replied>>

sync_merge(n) ==
    /\ syncPc[n] = "merge"
    /\ bPeers' = [bPeers EXCEPT ![n] = merge(@, syncSnap[n])]
    /\ syncDone' = [syncDone EXCEPT ![n] = <<syncSnap[n]>>]
    /\ syncPc' = [syncPc EXCEPT ![n] = "snapshot"]
    /\ last' = NoLast
    /\ UNCHANGED <<accepted, consumed, discovery, username, running, held, roundFailed, rPeers, channel, queue, net, syncSnap, replied, events>>

(* The environment: a datagram from the outside host *)

outside_send(n, port, data) ==
    /\ events < MaxEvents
    /\ events' = events + 1
    /\ net' = net (+) SetToBag(Emit(OutsideAddr, Address(HostIP(n), port), data))
    /\ last' = NoLast
    /\ UNCHANGED <<accepted, consumed, discovery, username, running, held, roundFailed, rPeers, bPeers, channel, queue, syncPc, syncSnap,
                   syncDone, replied>>

----------------------------------------------------------------------------

Next ==
    /\ UNCHANGED <<codecvars, taskvars>>
    /\ \/ \E n \in Nodes : discover_peers(n)
       \/ \E n \in Nodes : listen_for_discovery_recv_error(n)
       \/ \E n \in Nodes : \E p \in InFlight : handle_discovery(n, p)
       \/ \E n \in Nodes : \E p \in InFlight : listen_for_messages(n, p)
       \/ \E n \in Nodes : pump(n)
       \/ \E n \in Nodes : continuous_receive_task(n)
       \/ \E n \in Nodes : sync_snapshot(n)
       \/ \E n \in Nodes : sync_merge(n)
       \/ \E n \in Exposed : \E port \in BoundPorts : \E data \in OutsideData :
              outside_send(n, port, data)

Spec == Init /\ [][Next]_vars

----------------------------------------------------------------------------
(* The codec specification: a raw text, or a Message to encode, is drawn;  *)
(* broadcast_message encodes, parse_message decodes.                       *)

InitCodec ==
    /\ InitNet
    /\ InitTasks
    /\ msg \in {<<>>} \cup {<<m>> : m \in CodecMessages}
    /\ text \in IF msg = <<>> THEN TextsUpTo(MaxLen) ELSE {<<>>}
    /\ decoded = <<>>

Encode ==
    /\ msg # <<>>
    /\ text = <<>>
    /\ text' = ChatDatagram(msg[1])
    /\ UNCHANGED <<msg, decoded>>

Decode ==
    /\ decoded = <<>>
    /\ msg # <<>> => text # <<>>
    /\ decoded' = parse_message(text)
    /\ UNCHANGED <<msg, text>>

NextCodec ==
    /\ UNCHANGED <<netvars, taskvars>>
    /\ \/ Encode
       \/ Decode

SpecCodec == InitCodec /\ [][NextCodec]_vars

----------------------------------------------------------------------------
(* The broadcast path on its own: the typing node starts with a peer set   *)
(* that discovery and a completed peer list sync have filled.              *)

\* addresses the typing node can have learnt: an announcer socket of the other
\* node and the outside host
KnownPeers == {Address(HostIP("Y"), 49152), OutsideAddr}

InitBroadcast ==
    /\ username \in {u \in [Nodes -> UNION {Usernames(n) : n \in Nodes}] :
                       \A n \in Nodes : u[n] \in Usernames(n)}
    /\ \E known \in SUBSET KnownPeers :
          /\ rPeers = [n \in Nodes |-> IF n \in Typing THEN known ELSE {}]
          /\ bPeers = rPeers
          /\ syncDone = [n \in Nodes |-> IF n \in Typing THEN <<known>> ELSE <<>>]
    /\ channel = [n \in Nodes |-> <<>>]
    /\ queue = [n \in Nodes |-> <<>>]
    /\ net = EmptyBag
    /\ syncPc = [n \in Nodes |-> "snapshot"]
    /\ syncSnap = [n \in Nodes |-> {}]
    /\ replied = {}
    /\ events = 0
    /\ last = NoLast
    /\ running = [n \in Nodes |-> [responder |-> TRUE, announcer |-> TRUE, listener |-> TRUE]]
    /\ held = [n \in Nodes |-> <<>>]
    /\ roundFailed = [n \in Nodes |-> FALSE]
    /\ accepted = [n \in Nodes |-> <<>>]
    /\ consumed = [n \in Nodes |-> <<>>]
    /\ discovery = [n \in Nodes |-> [probes |-> 0, responses |-> 0]]
    /\ text = <<>>
    /\ msg = <<>>
    /\ decoded = <<>>
    /\ InitTasks

NextBroadcast ==
    /\ UNCHANGED <<codecvars, taskvars>>
    /\ \/ \E n \in Typing : \E input \in Contents : broadcast_message(n, input)
       \/ \E n \in Nodes : \E p \in InFlight : listen_for_messages(n, p)

SpecBroadcast == InitBroadcast /\ [][NextBroadcast]_vars

\* a DISCOVER datagram arrives at n's discovery port whose source address, as
\* recv_from reports it, is the discovery address of node x
probe_from_discovery_port(n, x) ==
    /\ events < MaxEvents
    /\ events' = events + 1
    /\ net' = net (+) SetToBag(Emit(Address(HostIP(x), DISCOVERY_PORT),
                                    Address(HostIP(n), DISCOVERY_PORT),
                                    DiscoveryProbe(<<"z">>)))
    /\ last' = NoLast
    /\ UNCHANGED <<accepted, consumed, discovery, username, running, held, roundFailed, rPeers,
                   bPeers, channel, queue, syncPc, syncSnap, syncDone, replied>>

NextDiscovery ==
    /\ UNCHANGED <<codecvars, taskvars>>
    /\ \/ \E n \in Nodes : discover_peers(n)
       \/ \E n \in Nodes : \E x \in Nodes : probe_from_discovery_port(n, x)
       \/ \E n \in Nodes : \E p \in InFlight : handle_discovery(n, p)

SpecDiscovery == Init /\ [][NextDiscovery]_vars

\* a node that announces itself and broadcasts chat lines, with the listeners
\* of every node
NextSelf ==
    /\ UNCHANGED <<codecvars, taskvars>>
    /\ \/ \E n \in Typing : discover_peers(n)
       \/ \E n \in Nodes : \E p \in InFlight : handle_discovery(n, p)
       \/ \E n \in Typing : \E input \in Contents : broadcast_message(n, input)
       \/ \E n \in Nodes : \E p \in InFlight : listen_for_messages(n, p)

SpecSelf == Init /\ [][NextSelf]_vars

\* Y recorded under the source ports of two of its earlier sends
RecordedTwice == {Address(HostIP("Y"), port) : port \in EphemeralPorts}

\* the typing node has learned and merged one address of Y, or both
InitFanout ==
    /\ username \in {u \in [Nodes -> UNION {PlainUsernames(n) : n \in Nodes}] :
                       \A n \in Nodes : u[n] \in PlainUsernames(n)}
    /\ \E known \in {{Address(HostIP("Y"), 49152)}, RecordedTwice} :
          /\ rPeers = [n \in Nodes |-> IF n \in Typing THEN known ELSE {}]
          /\ bPeers = rPeers
          /\ syncDone = [n \in Nodes |-> IF n \in Typing THEN <<known>> ELSE <<>>]
    /\ channel = [n \in Nodes |-> <<>>]
    /\ queue = [n \in Nodes |-> <<>>]
    /\ net = EmptyBag
    /\ syncPc = [n \in Nodes |-> "snapshot"]
    /\ syncSnap = [n \in Nodes |-> {}]
    /\ replied = {}
    /\ events = 0
    /\ last = NoLast
    /\ running = [n \in Nodes |-> [responder |-> TRUE, announcer |-> TRUE, listener |-> TRUE]]
    /\ held = [n \in Nodes |-> <<>>]
    /\ roundFailed = [n \in Nodes |-> FALSE]
    /\ accepted = [n \in Nodes |-> <<>>]
    /\ consumed = [n \in Nodes |-> <<>>]
    /\ discovery = [n \in Nodes |-> [probes |-> 0, responses |-> 0]]
    /\ text = <<>>
    /\ msg = <<>>
    /\ decoded = <<>>
    /\ InitTasks

SpecFanout == InitFanout /\ [][NextBroadcast]_vars

----------------------------------------------------------------------------
(* The announcers running without end. The datagrams of earlier rounds are *)
(* lost or consumed before a new interval starts; the interval restarts    *)
(* the count of rounds.                                                    *)

sleep_elapsed ==
    /\ events = MaxEvents
    /\ events' = 0
    /\ net' = EmptyBag
    /\ last' = NoLast
    /\ UNCHANGED <<accepted, consumed, discovery, username, running, held, roundFailed, rPeers, bPeers, channel, queue,
                   syncPc, syncSnap, syncDone, replied>>

NextAnnouncer ==
    /\ UNCHANGED <<codecvars, taskvars>>
    /\ \/ \E n \in Nodes : discover_peers(n)
       \/ sleep_elapsed

\* the timer of every running announcer fires again and again
SpecAnnouncer ==
    /\ Init
    /\ [][NextAnnouncer]_vars
    /\ \A n \in Nodes : SF_vars(discover_peers(n) /\ UNCHANGED <<codecvars, taskvars>>)
    /\ WF_vars(sleep_elapsed /\ UNCHANGED <<codecvars, taskvars>>)

----------------------------------------------------------------------------
(* The handoff from the chat listener to the message queue when the pump   *)
(* lags: the exposed node has received a backlog of chat datagrams of the  *)
(* typing node that the pump has not moved to the queue yet.               *)

BacklogSource == Address(HostIP("X"), 49152)

Backlog(k, u) ==
    [i \in 1..k |->
        chat_message(ChatDatagram(OutboundMessage(<<"h", FIELD_SPLITTER, "i">>, u)),
                     BacklogSource)]

InitHandoff ==
    /\ username \in {u \in [Nodes -> UNION {PlainUsernames(n) : n \in Nodes}] :
                       \A n \in Nodes : u[n] \in PlainUsernames(n)}
    /\ \E k \in {CHANNEL_CAPACITY - 1, CHANNEL_CAPACITY} :
          channel = [n \in Nodes |-> IF n \in Exposed THEN Backlog(k, username["X"]) ELSE <<>>]
    /\ rPeers = [n \in Nodes |-> IF n \in Exposed THEN {BacklogSource} ELSE {}]
    /\ bPeers = [n \in Nodes |-> {}]
    /\ queue = [n \in Nodes |-> <<>>]
    /\ net = EmptyBag
    /\ syncPc = [n \in Nodes |-> "snapshot"]
    /\ syncSnap = [n \in Nodes |-> {}]
    /\ syncDone = [n \in Nodes |-> <<>>]
    /\ replied = {}
    /\ events = 0
    /\ last = NoLast
    /\ running = [n \in Nodes |-> [responder |-> TRUE, announcer |-> TRUE, listener |-> TRUE]]
    /\ held = [n \in Nodes |-> <<>>]
    /\ roundFailed = [n \in Nodes |-> FALSE]
    /\ accepted = channel
    /\ consumed = [n \in Nodes |-> <<>>]
    /\ discovery = [n \in Nodes |-> [probes |-> 0, responses |-> 0]]
    /\ text = <<>>
    /\ msg = <<>>
    /\ decoded = <<>>
    /\ InitTasks

NextHandoff ==
    /\ UNCHANGED <<codecvars, taskvars>>
    /\ \/ \E n \in Exposed : \E data \in OutsideData : outside_send(n, CHAT_PORT, data)
       \/ \E n \in Nodes : \E p \in InFlight : listen_for_messages(n, p)
       \/ \E n \in Nodes : message_sender_send_completes(n)
       \/ \E n \in Nodes : pump(n)

SpecHandoff == InitHandoff /\ [][NextHandoff]_vars

----------------------------------------------------------------------------
(* The inbound pipeline of the exposed node: chat listener, handoff        *)
(* channel, pump, message queue and the poll loop of the UI. The channel   *)
(* does not fill up here; the full channel is in the handoff               *)
(* specification.                                                          *)

\* the datagrams of the outside host and a chat datagram of three fields
InboundData == OutsideData \cup {Txt(MSG_TYPE_CHAT, <<"a", FIELD_SPLITTER, "b">>)}

NextInbound ==
    /\ UNCHANGED <<codecvars, taskvars>>
    /\ \/ \E n \in Exposed : \E data \in InboundData : outside_send(n, CHAT_PORT, data)
       \/ \E n \in Nodes : listen_for_messages_recv_error(n)
       \/ \E n \in Nodes : \E p \in InFlight : listen_for_messages(n, p)
       \/ \E n \in Nodes : pump(n)
       \/ \E n \in Nodes : continuous_receive_task(n)

SpecInbound == Init /\ [][NextInbound]_vars

\* the pump is woken when the channel holds a message, and the poll loop of the
\* UI polls the queue every 10 ms
SpecInboundFair ==
    /\ Init
    /\ [][NextInbound]_vars
    /\ \A n \in Nodes : WF_vars(pump(n) /\ UNCHANGED <<codecvars, taskvars>>)
    /\ \A n \in Nodes : WF_vars(continuous_receive_task(n) /\ UNCHANGED <<codecvars, taskvars>>)

----------------------------------------------------------------------------
(* The peer list sync running without end while the listeners of the       *)
(* exposed node handle datagrams that are already on their way: a probe    *)
(* and a chat datagram of the outside host and a chat datagram of the      *)
(* typing node. A datagram not handled when the interval ends is lost.     *)

SyncTraffic ==
    Emit(OutsideAddr, Address(HostIP("Y"), DISCOVERY_PORT),
         Txt(MSG_TYPE_DISCOVERY, <<"z", FIELD_SPLITTER>> \o NoneText))
    \cup Emit(OutsideAddr, Address(HostIP("Y"), CHAT_PORT), Txt(MSG_TYPE_CHAT, <<"z">>))
    \cup Emit(Address(HostIP("X"), 49152), Address(HostIP("Y"), CHAT_PORT),
              ChatDatagram(OutboundMessage(<<"h", "i">>, <<"a">>)))

InitSync ==
    /\ InitTasks
    /\ text = <<>>
    /\ msg = <<>>
    /\ decoded = <<>>
    /\ username \in {u \in [Nodes -> UNION {PlainUsernames(n) : n \in Nodes}] :
                       \A n \in Nodes : u[n] \in PlainUsernames(n)}
    /\ rPeers = [n \in Nodes |-> {}]
    /\ bPeers = [n \in Nodes |-> {}]
    /\ channel = [n \in Nodes |-> <<>>]
    /\ queue = [n \in Nodes |-> <<>>]
    /\ net \in {SetToBag(t) : t \in SUBSET SyncTraffic}
    /\ syncPc = [n \in Nodes |-> "snapshot"]
    /\ syncSnap = [n \in Nodes |-> {}]
    /\ syncDone = [n \in Nodes |-> <<>>]
    /\ replied = {}
    /\ events = 0
    /\ last = NoLast
    /\ running = [n \in Nodes |-> [responder |-> TRUE, announcer |-> TRUE, listener |-> TRUE]]
    /\ held = [n \in Nodes |-> <<>>]
    /\ roundFailed = [n \in Nodes |-> FALSE]
    /\ accepted = [n \in Nodes |-> <<>>]
    /\ consumed = [n \in Nodes |-> <<>>]
    /\ discovery = [n \in Nodes |-> [probes |-> 0, responses |-> 0]]

NextSync ==
    /\ UNCHANGED <<codecvars, taskvars>>
    /\ \/ \E n \in Nodes : \E p \in InFlight : handle_discovery(n, p)
       \/ \E n \in Nodes : \E p \in InFlight : listen_for_messages(n, p)
       \/ \E n \in Nodes : sync_snapshot(n)
       \/ \E n \in Nodes : sync_merge(n)
       \/ sleep_elapsed

\* the timer of every peer list sync fires again and again, and a cycle that
\* took its snapshot goes on to merge
SpecSync ==
    /\ InitSync
    /\ [][NextSync]_vars
    /\ \A n \in Nodes : SF_vars(sync_snapshot(n) /\ UNCHANGED <<codecvars, taskvars>>)
    /\ \A n \in Nodes : WF_vars(sync_merge(n) /\ UNCHANGED <<codecvars, taskvars>>)
    /\ WF_vars(sleep_elapsed /\ UNCHANGED <<codecvars, taskvars>>)

----------------------------------------------------------------------------
(* The tasks of the typing node interleaved instruction by instruction.    *)

NextTasks ==
    /\ UNCHANGED <<netvars, codecvars>>
    /\ \E t \in Tasks : task_step(t)

SpecTasks == Init /\ [][NextTasks]_vars

----------------------------------------------------------------------------
(* Claims C1 - C36 *)

HandledProbe ==
    /\ last.op = "handle_discovery"
    /\ parse_message(last.data)[1] = MSG_TYPE_DISCOVERY

OneResponseTo(src, n) ==
    /\ Len(last.sent) = 1
    /\ last.sent[1].dst = src
    /\ last.sent[1].data = DiscoveryResponse(username[n])

\* C1 as stated: whenever the responder has handled a DISCOVER datagram from A,
\* A is in the receiver's peer set and exactly one DISCOVER_RESPONSE has been
\* sent, to A and to no other address.
C1_Original ==
    HandledProbe =>
        /\ last.src \in rPeers[last.node]
        /\ OneResponseTo(last.src, last.node)
        /\ last.sent[1].ok

\* C1 (amended): whenever the responder has handled a DISCOVER datagram from A,
\* it has made exactly one send, of a DISCOVER_RESPONSE addressed to A (IP and
\* port); if that send succeeded, A is in the receiver's peer set.
C1_ResponderRepliesAndLearns ==
    HandledProbe =>
        /\ OneResponseTo(last.src, last.node)
        /\ last.sent[1].ok => last.src \in rPeers[last.node]

C1_Witness ==
    /\ HandledProbe
    /\ last.sent[1].ok
    /\ last.src \notin last.pre.rPeers
    /\ last.src \in rPeers[last.node]
    /\ last.src.port \in EphemeralPorts

\* C2 as stated: once Y has answered a probe of X's announcer, the reply is on
\* its way to X's discovery responder or X's responder has handled it and the
\* reply's source, Y's discovery address, is in X's peer set.
C2_Original ==
    \A x \in Nodes, y \in Nodes :
        (x # y /\ <<x, y>> \in replied) =>
            \/ Address(HostIP(y), DISCOVERY_PORT) \in rPeers[x]
            \/ \E p \in InFlight :
                  /\ p.host = x
                  /\ p.dst.port = DISCOVERY_PORT
                  /\ p.src = Address(HostIP(y), DISCOVERY_PORT)
                  /\ parse_message(p.data)[1] = MSG_TYPE_DISCOVERY_RESPONSE

\* C3: when the chat receiver has handled the chat datagram that node x's
\* broadcast of content c produced, and x's username u holds no separator, it
\* has enqueued exactly the Message (c, u, transport source IP), whose sender IP
\* is not the placeholder of the payload.
C3_BroadcastIsEnqueued ==
    \A x \in Nodes, c \in Contents :
        ( /\ last.op = "listen_for_messages"
          /\ last.src.ip = HostIP(x)
          /\ ~HasSep(username[x])
          /\ last.data = ChatDatagram(OutboundMessage(c, username[x])) )
        =>
        /\ last.enq = <<Message_new(c, username[x], IpToString(last.src.ip))>>
        /\ last.enq[1].sender_ip # OUTBOUND_MESSAGE_REPORTED_IP
        /\ channel[last.node] = last.pre.channel \o last.enq

C3_Witness ==
    /\ last.op = "listen_for_messages"
    /\ last.node = "Y"
    /\ last.src.ip = HostIP("X")
    /\ last.enq # <<>>
    /\ last.enq[1].content = <<"h", FIELD_SPLITTER, "i">>
    /\ last.enq[1].sender_name = <<"a">>
    /\ last.enq[1].sender_ip = <<"1", "9", "2", ".", "1", "6", "8", ".", "1", ".", "1", "0">>

\* C4: the broadcaster's peer set holds every address of the snapshot the most
\* recently completed reconciliation cycle took of the receiver's peer set.
C4_SnapshotMerged ==
    \A n \in Nodes : syncDone[n] # <<>> => syncDone[n][1] \subseteq bPeers[n]

C4_Witness ==
    \E n \in Nodes :
        /\ syncDone[n] # <<>>
        /\ syncDone[n][1] # {}
        /\ syncDone[n][1] \subseteq bPeers[n]

\* C5: an insert into a peer set returns true exactly when the address (IP and
\* port) was not in the set, then the set has grown by one; otherwise it
\* returns false and the set is unchanged; the address is in the set afterwards.
C5_InsertIdempotent ==
    last.ins # <<>> =>
        LET i == last.ins[1]
            before == last.pre.rPeers
            after == rPeers[last.node]
        IN  /\ i.is_new = (i.addr \notin before)
            /\ i.is_new => Cardinality(after) = Cardinality(before) + 1
            /\ ~i.is_new => after = before
            /\ i.addr \in after

C5_Witness ==
    /\ last.ins # <<>>
    /\ ~last.ins[1].is_new
    /\ last.ins[1].addr \in last.pre.rPeers
    /\ rPeers[last.node] = last.pre.rPeers

Encoded == msg # <<>> /\ decoded # <<>>

\* C6 as stated: decode(encode(m)) recovers name and content of every Message
\* whose name and content hold no separator.
C6_Original ==
    (Encoded /\ ~HasSep(msg[1].sender_name) /\ ~HasSep(msg[1].content)) =>
        /\ decoded[2] = msg[1].sender_name
        /\ decoded[3] = msg[1].content

\* C6 (amended): decode(encode(m)) recovers name and content of every Message
\* whose name, ip label and content hold no separator.
C6_RoundTrip ==
    ( /\ Encoded
      /\ ~HasSep(msg[1].sender_name)
      /\ ~HasSep(msg[1].sender_ip)
      /\ ~HasSep(msg[1].content) )
    =>
    /\ decoded[1] = MSG_TYPE_CHAT
    /\ decoded[2] = msg[1].sender_name
    /\ decoded[3] = msg[1].content

C6_Witness ==
    /\ Encoded
    /\ ~HasSep(msg[1].sender_name) /\ msg[1].sender_name # <<>>
    /\ ~HasSep(msg[1].sender_ip) /\ msg[1].sender_ip # <<>>
    /\ ~HasSep(msg[1].content) /\ msg[1].content # <<>>
    /\ decoded[2] = msg[1].sender_name
    /\ decoded[3] = msg[1].content

\* the text is its fields joined by the separator, and no field holds one
FieldsOf(t, f) ==
    /\ Join(f) = t
    /\ \A i \in 1..Len(f) : ~HasSep(f[i])

\* C7: a text of 4 or more fields decodes to (field 0, field 1, fields 3..
\* rejoined, field 2): the content is third and the ip fourth in the tuple.
C7_FourOrMoreFields ==
    decoded # <<>> =>
        LET f == Split(text)
        IN  Len(f) >= 4 =>
               /\ FieldsOf(text, f)
               /\ decoded = <<f[1], f[2], Join(SubSeq(f, 4, Len(f))), f[3]>>

C7_Witness ==
    /\ decoded # <<>>
    /\ Len(Split(text)) >= 5
    /\ decoded[4] = <<"a">>
    /\ HasSep(decoded[3])

\* C8: decoding never panics; the empty text, a text of one field and a text of
\* 2 or 3 fields decode to the defaults of the short-input policy.
C8_ShortInputPolicy ==
    decoded # <<>> =>
        LET f == Split(text)
        IN  /\ Len(decoded) = 4
            /\ \A i \in 1..4 : decoded[i] # PANIC
            /\ FieldsOf(text, f)
            /\ text = <<>> => decoded = <<<<>>, Unknown, <<>>, Unknown>>
            /\ (text # <<>> /\ Len(f) < 2) => decoded = <<<<>>, Unknown, text, Unknown>>
            /\ Len(f) \in {2, 3} => decoded = <<f[1], Unknown, Join(Tail(f)), Unknown>>

C8_Witness ==
    /\ decoded # <<>>
    /\ Len(Split(text)) = 3
    /\ decoded[2] = Unknown
    /\ HasSep(decoded[3])

\* C9: a datagram on the chat port whose decoded type is not CHAT enqueues
\* nothing: the handoff channel and the message queue are as before.
C9_NonChatNotEnqueued ==
    (last.op = "listen_for_messages" /\ parse_message(last.data)[1] # MSG_TYPE_CHAT) =>
        /\ last.enq = <<>>
        /\ channel[last.node] = last.pre.channel
        /\ queue[last.node] = last.pre.queue

C9_Witness ==
    /\ last.op = "listen_for_messages"
    /\ last.data = <<>>
    /\ last.enq = <<>>

\* ip labels a payload may carry
IpLabels ==
    {<<>>, <<"2">>, Unknown, OUTBOUND_MESSAGE_REPORTED_IP, IpToString(HostIP("X"))}

\* the chat datagram with its ip field (field 2) replaced
WithIpField(data, label) ==
    LET f == Split(data)
    IN  Join(<<f[1], f[2], label>> \o SubSeq(f, 4, Len(f)))

\* C10: the sender IP of an enqueued Message is the transport source IP, and a
\* chat datagram from the same source that differs only in the ip field of the
\* payload yields the same Message.
C10_SenderIpIsTransportSource ==
    (last.op = "listen_for_messages" /\ last.enq # <<>>) =>
        /\ last.enq[1].sender_ip = IpToString(last.src.ip)
        /\ Len(Split(last.data)) >= 4 =>
               \A label \in IpLabels :
                   chat_message(WithIpField(last.data, label), last.src) = last.enq[1]

C10_Witness ==
    /\ last.op = "listen_for_messages"
    /\ last.enq # <<>>
    /\ Len(Split(last.data)) >= 4
    /\ parse_message(last.data)[4] # last.enq[1].sender_ip
    /\ last.src = OutsideAddr

Broadcast == last.op = "broadcast_message"

\* the call made a send_to to this address
SentTo(addr) ==
    \/ \E a \in last.attempts : a.dst = addr
    \/ last.sweep /\ InTailscaleRange(addr.ip) /\ addr.port = CHAT_PORT

C12_UnicastToEveryPeer ==
    (Broadcast /\ last.snap # <<>>) =>
        /\ last.snap[1] = bPeers[last.node]
        /\ \A p \in last.snap[1] :
               \E a \in last.attempts : a.dst = Address(p.ip, CHAT_PORT)
        /\ \A a \in last.attempts : a.dst.port = CHAT_PORT
        /\ \A a \in last.attempts :
               (a.ok /\ \E h \in Nodes : HostIP(h) = a.dst.ip) =>
                   \E q \in InFlight :
                       q.dst = a.dst /\ q.src = last.src /\ q.data = last.data
        /\ SentTo(Address(BROADCAST_ADDR, CHAT_PORT))
        /\ last.sweep
        /\ last.ret = "ok"

C12_Witness ==
    /\ Broadcast
    /\ last.snap # <<>>
    /\ \E p \in last.snap[1] : p.port # CHAT_PORT
    /\ \E a, b \in last.attempts :
          /\ a.dst.ip # BROADCAST_ADDR /\ ~a.ok
          /\ b.dst.ip # BROADCAST_ADDR /\ b.ok
    /\ last.ret = "ok"

\* C13 as stated: after a send error or a receive error in the responder or in
\* the announcer, the loop of the task has not terminated.
C13_Original ==
    ( /\ last.op \in {"listen_for_discovery", "handle_discovery", "discover_peers"}
      /\ last.ret = "err" )
    =>
    /\ running[last.node].responder
    /\ running[last.node].announcer

HandledAtDiscoveryPort == last.op = "handle_discovery"

\* the step put no datagram in flight
SentNothing == last.sent = <<>> /\ last.attempts = {} /\ net \sqsubseteq last.pre.net

\* C15: when the responder has handled a DISCOVER_RESPONSE datagram from A, A is
\* in the receiver's peer set and nothing was sent.
C15_ResponseLearnsNoReply ==
    (HandledAtDiscoveryPort /\ parse_message(last.data)[1] = MSG_TYPE_DISCOVERY_RESPONSE) =>
        /\ last.src \in rPeers[last.node]
        /\ SentNothing

C15_Witness ==
    /\ HandledAtDiscoveryPort
    /\ parse_message(last.data)[1] = MSG_TYPE_DISCOVERY_RESPONSE
    /\ last.src \notin last.pre.rPeers
    /\ last.src \in rPeers[last.node]
    /\ last.sent = <<>>

\* C16: when the responder has handled a datagram whose type is neither DISCOVER
\* nor DISCOVER_RESPONSE, nothing was sent and the peer set, the handoff channel
\* and the message queue are as before.
C16_OtherTypesIgnored ==
    ( /\ HandledAtDiscoveryPort
      /\ parse_message(last.data)[1] \notin {MSG_TYPE_DISCOVERY, MSG_TYPE_DISCOVERY_RESPONSE} )
    =>
    /\ SentNothing
    /\ rPeers[last.node] = last.pre.rPeers
    /\ channel[last.node] = last.pre.channel
    /\ queue[last.node] = last.pre.queue

C16_Witness ==
    /\ HandledAtDiscoveryPort
    /\ last.data = MSG_TYPE_DISCOVERY
    /\ last.pre.rPeers # {}
    /\ rPeers[last.node] = last.pre.rPeers

\* what a round that got its socket has done
RoundSentProbes ==
    /\ {a.dst : a \in last.attempts} =
           {Address(BROADCAST_ADDR, DISCOVERY_PORT), Address(TAILSCALE_MULTICAST, DISCOVERY_PORT)}
    /\ Cardinality(last.attempts) = 2
    /\ last.data = Join(<<MSG_TYPE_DISCOVERY, username[last.node], NoneText>>)
    /\ \A a \in last.attempts :
          (a.ok /\ a.dst.ip = BROADCAST_ADDR) =>
              \A h \in Nodes : \E q \in InFlight :
                  q.host = h /\ q.dst = a.dst /\ q.src = last.src /\ q.data = last.data

AnnouncerRound ==
    /\ \A n \in Nodes : running[n].announcer
    /\ (last.op = "discover_peers" /\ last.ret = "ok") => RoundSentProbes
    /\ (last.op = "discover_peers" /\ last.ret = "err") => SentNothing

ReceivedWhenFull ==
    /\ last.op = "listen_for_messages"
    /\ last.pre.held = <<>>
    /\ IsChat(parse_message(last.data)[1])
    /\ Len(last.pre.channel) = CHANNEL_CAPACITY

C18_PeerSetsOnlyGrow ==
    [][ /\ \A n \in Nodes : rPeers[n] \subseteq rPeers'[n] /\ bPeers[n] \subseteq bPeers'[n]
        /\ (syncPc' # syncPc) => (rPeers' = rPeers) ]_vars

C18_Witness ==
    \E n \in Nodes :
        /\ syncPc[n] = "snapshot"
        /\ bPeers[n] # {}
        /\ bPeers[n] = rPeers[n]

\* C19: a task that is suspended at a socket send, a socket receive, a channel
\* operation or a sleep holds no lock of a peer set or of the message queue.
C19_NoLockAcrossSuspension ==
    \A t \in Tasks : Suspended(t) => LocksHeld(t) = {}

\* a call of broadcast_message is suspended at a unicast send_to while the peer
\* list sync task holds the lock of the broadcaster's peers
C19_Witness ==
    /\ pc[<<"broadcast_message", 1>>] = 4
    /\ holder[BROADCASTER_PEERS] = <<"peer_sync", 0>>

RunningCalls == {c \in Calls : pc[c] # 0}

\* C20: the datagrams of one node are sent in the order of submission: the latest
\* datagram is never of an earlier line than a datagram sent before it, and no
\* two calls of broadcast_message of the node run at the same time.
C20_SubmissionOrder ==
    /\ wire.cur = wire.max
    /\ Cardinality(RunningCalls) <= 1

\* a datagram of the second line is out after the call for the first line sent
\* its datagrams and returned
C20_Witness ==
    /\ submitted = 2
    /\ wire.cur = 2
    /\ pc[<<"broadcast_message", 1>>] = 0
    /\ pc[<<"broadcast_message", 2>>] = 6

\* the message the chat listener holds at a pending send, as a sequence
HeldMessages(n) == IF held[n] = <<>> THEN <<>> ELSE <<held[n][1].message>>

\* the Messages of a node from the oldest to the newest: handed to the UI, in
\* the queue, in the handoff channel, held by the listener
Pipeline(n) == consumed[n] \o queue[n] \o channel[n] \o HeldMessages(n)

\* C21: the Messages get_queue_message has returned, followed by those still in
\* the queue, in the handoff channel and at the listener, are the Messages the
\* chat listener accepted, in the order it accepted them.
C21_InboundFifo ==
    \A n \in Nodes : Pipeline(n) = accepted[n]

\* two different Messages have gone through the whole pipeline
C21_Witness ==
    \E n \in Nodes :
        /\ Len(consumed[n]) = 2
        /\ consumed[n][1] # consumed[n][2]
        /\ consumed[n] = accepted[n]

BagOfSeq(q) ==
    LET range == {q[i] : i \in DOMAIN q}
    IN  [m \in range |-> Cardinality({i \in DOMAIN q : q[i] = m})]

\* C22: every accepted Message is in exactly one place: as often as the listener
\* accepted a Message, so often it is, taken together, at the listener, in the
\* handoff channel, in the queue or handed to add_message.
C22_ExactlyOnePlace ==
    \A n \in Nodes :
        BagOfSeq(accepted[n]) =
            BagOfSeq(consumed[n]) (+) BagOfSeq(queue[n]) (+) BagOfSeq(channel[n])
                (+) BagOfSeq(HeldMessages(n))

\* the same datagram was accepted twice: one Message is consumed, its twin is
\* still in the queue
C22_Witness ==
    \E n \in Nodes :
        /\ Len(accepted[n]) = 2
        /\ accepted[n][1] = accepted[n][2]
        /\ Len(consumed[n]) = 1
        /\ Len(queue[n]) = 1

\* addresses a listener can insert
Learnable == {OutsideAddr, Address(HostIP("X"), 49152)}

\* a broadcast of node n computes a unicast target with the IP of address a
UnicastReaches(n, a) ==
    \E peer \in bPeers[n] : UnicastTarget(peer, CHAT_PORT).ip = a.ip

Pumped(n, k) == Len(consumed[n]) + Len(queue[n]) >= k

\* the k-th accepted Message of node n was handed to add_message
Consumed(n, k) == Len(consumed[n]) >= k /\ consumed[n][k] = accepted[n][k]

\* C24: every Message the chat listener accepted is eventually moved from the
\* handoff channel to the message queue and eventually handed to add_message
\* by the poll loop of the UI.
C24_AcceptedIsConsumed ==
    \A n \in Nodes : \A k \in 1..MaxEvents :
        /\ (Len(accepted[n]) >= k) ~> Pumped(n, k)
        /\ (Len(accepted[n]) >= k) ~> Consumed(n, k)

\* a Message of the outside host went from the listener through channel and
\* queue to the UI while the next one is still in the handoff channel
C24_Witness ==
    \E n \in Nodes :
        /\ Len(accepted[n]) = 2
        /\ Len(consumed[n]) = 1
        /\ consumed[n][1].sender_ip = IpToString(HostIP(OutsideHost))
        /\ Len(channel[n]) = 1

ChatReceived ==
    /\ last.op = "listen_for_messages"
    /\ parse_message(last.data)[1] = MSG_TYPE_CHAT

\* C25: after a CHAT datagram from S has been handled, its Message is the newest
\* of the handoff channel and S is in the receiver's peer set; as long as the
\* Message is not handed over, S has not been inserted by this datagram.
C25_HandedOverThenLearned ==
    ChatReceived =>
        IF last.ret = "pending"
        THEN /\ held[last.node] # <<>>
             /\ channel[last.node] = last.pre.channel
             /\ rPeers[last.node] = last.pre.rPeers
        ELSE /\ last.enq = <<chat_message(last.data, last.src)>>
             /\ channel[last.node] = Append(last.pre.channel, last.enq[1])
             /\ rPeers[last.node] = last.pre.rPeers \cup {last.src}

\* the listener handed the Message of a datagram over at once and learned a
\* source it did not know, with its source port
C25_Witness ==
    /\ ChatReceived
    /\ last.pre.held = <<>>
    /\ last.ret = "ok"
    /\ last.src \notin last.pre.rPeers
    /\ last.src = OutsideAddr
    /\ last.src \in rPeers[last.node]
    /\ last.pre.rPeers # {}

\* C26 as stated: after a receive error on the chat socket the loop of the chat
\* listener has not terminated.
C26_Original ==
    (last.op = "listen_for_messages_recv" /\ last.ret = "err") =>
        running[last.node].listener

\* a chat datagram of 2 or 3 fields was received
TruncatedChatReceived ==
    /\ last.op = "listen_for_messages"
    /\ Split(last.data)[1] = MSG_TYPE_CHAT
    /\ Len(Split(last.data)) \in {2, 3}

\* C27: a datagram on the chat port of type CHAT with 2 or 3 fields is accepted:
\* the newest Message of the handoff channel has the sender name "Unknown", the
\* fields after the type rejoined with the separator as content, and the
\* transport source IP as sender IP.
C27_TruncatedChatAccepted ==
    TruncatedChatReceived =>
        /\ last.ret = "ok"
        /\ channel[last.node] =
               Append(last.pre.channel,
                      Message_new(Join(Tail(Split(last.data))), Unknown,
                                  IpToString(last.src.ip)))

\* CHAT~a~b was accepted with the content a~b
C27_Witness ==
    /\ TruncatedChatReceived
    /\ Len(Split(last.data)) = 3
    /\ last.enq # <<>>
    /\ last.enq[1].content = <<"a", FIELD_SPLITTER, "b">>
    /\ last.enq[1].sender_name = Unknown

\* C28: decoding the chat datagram built from a Message whose name and ip label
\* hold no separator recovers name, ip label and content, whatever separators
\* the content holds; with a separator in the name the decoded content is not
\* the content of the Message.
C28_ContentWithSeparators ==
    /\ (Encoded /\ ~HasSep(msg[1].sender_name) /\ ~HasSep(msg[1].sender_ip)) =>
          /\ decoded[1] = MSG_TYPE_CHAT
          /\ decoded[2] = msg[1].sender_name
          /\ decoded[3] = msg[1].content
          /\ decoded[4] = msg[1].sender_ip
    /\ (Encoded /\ HasSep(msg[1].sender_name) /\ ~HasSep(msg[1].sender_ip)) =>
          decoded[3] # msg[1].content

\* a content of two separators came back as it was
C28_Witness ==
    /\ Encoded
    /\ ~HasSep(msg[1].sender_name)
    /\ ~HasSep(msg[1].sender_ip)
    /\ msg[1].content = <<FIELD_SPLITTER, FIELD_SPLITTER>>
    /\ decoded[3] = msg[1].content

\* a datagram whose decoded type is not CHAT was received on the chat port
NonChatReceived ==
    /\ last.op = "listen_for_messages"
    /\ parse_message(last.data)[1] # MSG_TYPE_CHAT

\* C29: a datagram on the chat port whose decoded type is not CHAT inserts
\* nothing: the receiver's peer set is as before.
C29_NonChatTeachesNoPeer ==
    NonChatReceived =>
        /\ last.ins = <<>>
        /\ rPeers[last.node] = last.pre.rPeers

\* a probe of an unknown source arrived on the chat port
C29_Witness ==
    /\ NonChatReceived
    /\ parse_message(last.data)[1] = MSG_TYPE_DISCOVERY
    /\ last.src = OutsideAddr
    /\ OutsideAddr \notin rPeers[last.node]

InputLoop == <<"continuous_broadcast_task", 0>>

\* the input loop has called process::exit
Exited == pc[InputLoop] = 0

C31_BroadcasterPeersWithinReceiverPeers ==
    \A n \in Nodes : bPeers[n] \subseteq rPeers[n]

\* a merge has copied one address and the receiver has learned a second one
\* since: the broadcaster's set is a non-empty proper subset
C31_Witness ==
    \E n \in Nodes :
        /\ bPeers[n] # {}
        /\ bPeers[n] # rPeers[n]
        /\ syncDone[n] # <<>>

FailedResponse ==
    /\ last.op = "handle_discovery"
    /\ last.sent # <<>>
    /\ ~last.sent[1].ok

\* C33: when the send of the discovery response to the probe's source A has
\* failed, handle_discovery has returned the error and inserted nothing, the
\* receiver's peer set is what it was before the probe, no datagram went out,
\* and the discovery listener is still running.
C33_FailedResponseLearnsNothing ==
    FailedResponse =>
        /\ HandledProbe
        /\ last.sent[1].dst = last.src
        /\ last.ret = "err"
        /\ last.ins = <<>>
        /\ rPeers[last.node] = last.pre.rPeers
        /\ BagCardinality(net) + 1 = BagCardinality(last.pre.net)
        /\ running[last.node].responder

\* the response to a source not in the peer set failed while another datagram
\* for the same discovery listener is in flight
C33_Witness ==
    /\ FailedResponse
    /\ last.src \notin rPeers[last.node]
    /\ \E q \in InFlight : q.host = last.node /\ q.dst.port = DISCOVERY_PORT

\* task t is at a lock() of a mutex that another task, or t itself, holds
Waits(t) ==
    /\ pc[t] # 0
    /\ Instruction(t).kind = "lock"
    /\ holder[Instruction(t).m] # NoTask

Blocker(t) == holder[Instruction(t).m]

RECURSIVE WaitChain(_, _, _)
\* following the holders of the awaited mutexes from u leads to t within k steps
WaitChain(t, u, k) ==
    \/ u = t
    \/ k > 0 /\ Waits(u) /\ WaitChain(t, Blocker(u), k - 1)

InWaitCycle(t) == Waits(t) /\ WaitChain(t, Blocker(t), Cardinality(Tasks))

PollLoop == <<"continuous_receive_task", 0>>

\* C32: under every interleaving of the tasks no task waits for a lock in a
\* cycle of tasks waiting for each other's locks; a task holds at most one lock,
\* except the UI poll loop, which holds the message-queue lock only inside the
\* Receiver-handle lock; no task holds both peer-set locks.
C32_NoLockCycle ==
    /\ \A t \in Tasks : ~InWaitCycle(t)
    /\ \A t \in Tasks :
          \/ Cardinality(LocksHeld(t)) <= 1
          \/ t = PollLoop /\ LocksHeld(t) = {RECEIVER, MESSAGE_QUEUE}
    /\ holder[MESSAGE_QUEUE] = PollLoop => holder[RECEIVER] = PollLoop
    /\ \A t \in Tasks : ~({RECEIVER_PEERS, BROADCASTER_PEERS} \subseteq LocksHeld(t))

\* the UI poll loop holds the Receiver handle and the message queue while the
\* queue pump waits for the queue and the peer list sync for the handle, and
\* the two peer-set locks are held by two different tasks
C32_Witness ==
    /\ LocksHeld(PollLoop) = {RECEIVER, MESSAGE_QUEUE}
    /\ Waits(<<"pump", 0>>)
    /\ Waits(<<"peer_sync", 0>>)
    /\ holder[RECEIVER_PEERS] = <<"listen_for_discovery", 0>>
    /\ holder[BROADCASTER_PEERS] = <<"broadcast_message", 1>>

\* the unicast datagram of the latest call of broadcast as node h receives it
UnicastCopy(h) ==
    [src |-> last.src, dst |-> Address(HostIP(h), CHAT_PORT), host |-> h, data |-> last.data]

\* the copies of the datagram the latest step put in flight
CopiesAdded(q) == CopiesIn(q, net) - CopiesIn(q, last.pre.net)

\* C34: a call of broadcast that took its snapshot made exactly one send_to per
\* entry of the snapshot, so a node recorded under k addresses whose sends
\* succeeded has k more unicast copies of the datagram in flight; and the chat
\* receiver appends the message of every copy it handles to the channel, also
\* when an equal message is already there.
C34_OneCopyPerRecordedAddress ==
    /\ (Broadcast /\ last.snap # <<>>) =>
          /\ {s.peer : s \in last.sends} = last.snap[1]
          /\ Cardinality(last.sends) = Cardinality(last.snap[1])
          /\ \A h \in Nodes :
                CopiesAdded(UnicastCopy(h)) =
                    Cardinality({s \in last.sends : s.peer.ip = HostIP(h) /\ s.ok})
    /\ (ChatReceived /\ last.ret = "ok") =>
          channel[last.node] =
              Append(last.pre.channel, chat_message(last.data, last.src))

\* after one call of broadcast by X, whose peer set holds Y under two ports, Y
\* has enqueued the two unicast copies and the fallback copy as three Messages
C34_Witness ==
    /\ events = 1
    /\ bPeers["X"] = RecordedTwice
    /\ Cardinality(RecordedTwice) = 2
    /\ last.op = "listen_for_messages"
    /\ last.node = "Y"
    /\ Len(channel["Y"]) = 3
    /\ channel["Y"][1] = channel["Y"][2]
    /\ channel["Y"][2] = channel["Y"][3]

\* the transport source of the datagram handled last is the handling node itself
OwnDatagram ==
    /\ last.op \in {"handle_discovery", "listen_for_messages"}
    /\ last.src.ip = HostIP(last.node)

\* C35 as stated: a node that has handled a DISCOVER probe whose source is the
\* node itself has replied to that source and has its own address in its peer
\* set; a node that has handled its own chat datagram has enqueued it as an
\* inbound Message and has its own address in its peer set.
C35_Original ==
    /\ (HandledProbe /\ OwnDatagram) =>
          /\ OneResponseTo(last.src, last.node)
          /\ last.src \in rPeers[last.node]
    /\ (ChatReceived /\ OwnDatagram /\ last.ret = "ok") =>
          /\ last.enq = <<chat_message(last.data, last.src)>>
          /\ channel[last.node] = Append(last.pre.channel, last.enq[1])
          /\ last.src \in rPeers[last.node]

\* C35 (amended): a node that has handled a DISCOVER probe whose source is the
\* node itself has made one send of a DISCOVER_RESPONSE to that source and, if
\* the send succeeded, has its own address in its peer set; a node that has
\* handled its own chat datagram has enqueued it as an inbound Message and has
\* its own address in its peer set.
C35_NoSelfFiltering ==
    /\ (HandledProbe /\ OwnDatagram) =>
          /\ OneResponseTo(last.src, last.node)
          /\ last.sent[1].ok =>
                /\ last.src \in rPeers[last.node]
                /\ last.ins = <<[addr |-> last.src, is_new |-> last.src \notin last.pre.rPeers]>>
    /\ (ChatReceived /\ OwnDatagram /\ last.ret = "ok") =>
          /\ last.enq = <<chat_message(last.data, last.src)>>
          /\ channel[last.node] = Append(last.pre.channel, last.enq[1])
          /\ last.src \in rPeers[last.node]
          /\ last.ins = <<[addr |-> last.src, is_new |-> last.src \notin last.pre.rPeers]>>

\* X has answered its own probe and has now enqueued its own chat line: its
\* peer set holds two addresses, both its own
C35_Witness ==
    /\ ChatReceived
    /\ OwnDatagram
    /\ last.ret = "ok"
    /\ last.enq # <<>>
    /\ <<last.node, last.node>> \in replied
    /\ Cardinality(rPeers[last.node]) = 2
    /\ \A a \in rPeers[last.node] : a.ip = HostIP(last.node)

\* no datagram for a discovery listener is in flight
DiscoveryQuiet == \A q \in InFlight : q.dst.port # DISCOVERY_PORT

HandledResponse ==
    /\ last.op = "handle_discovery"
    /\ parse_message(last.data)[1] = MSG_TYPE_DISCOVERY_RESPONSE

\* what a datagram in flight can still set off: a probe for a discovery
\* listener a response and its handling, any other datagram for a discovery
\* listener its handling only
Pending(q) ==
    IF q.dst.port # DISCOVERY_PORT THEN 0
    ELSE IF parse_message(Received(q.data))[1] = MSG_TYPE_DISCOVERY THEN 2
    ELSE 1

RECURSIVE PendingIn(_, _)
PendingIn(S, bag) ==
    IF S = {} THEN 0
    ELSE LET q == CHOOSE x \in S : TRUE
         IN  CopiesIn(q, bag) * Pending(q) + PendingIn(S \ {q}, bag)

PendingWork(bag) == PendingIn(BagToSet(bag), bag)

\* C36: a node makes a send from its discovery listener only when it has
\* handled a DISCOVER probe, one send per probe, so the responses a node has sent
\* are never more than the probes it has handled; the handling of a response
\* puts no datagram in flight; and every datagram a discovery listener handles
\* leaves less pending discovery work than there was, so that without new
\* probes the exchange ends.
C36_DiscoveryQuiesces ==
    /\ \A n \in Nodes : discovery[n].responses <= discovery[n].probes
    /\ last.sent # <<>> => (HandledProbe /\ OneResponseTo(last.src, last.node))
    /\ HandledResponse =>
          /\ last.sent = <<>>
          /\ BagCardinality(net) + 1 = BagCardinality(last.pre.net)
    /\ last.op = "handle_discovery" => PendingWork(net) < PendingWork(last.pre.net)

\* X's discovery listener has handled the response that Y's listener sent to
\* X's discovery port for a probe, and nothing is in flight any more
C36_Witness ==
    /\ HandledResponse
    /\ last.node = "X"
    /\ last.src = Address(HostIP("Y"), DISCOVERY_PORT)
    /\ discovery["Y"].probes = 1
    /\ discovery["Y"].responses = 1
    /\ last.src \in rPeers["X"]
    /\ DiscoveryQuiet

====
